---- MODULE Spec2Model ----
(***************************************************************************)
(* Column Type Model of barrel: the BaseType enum and the Type<T> metadata *)
(* envelope with its constructor, accessor, validator and consuming        *)
(* builder calls (src/types/impls.rs).                                     *)
(*                                                                         *)
(* One Type value is owned by one column description.  The model follows   *)
(* that owner: it constructs the value, then applies builder calls,        *)
(* validate() and get_inner() in any order.  `calls` is the history of the *)
(* builder calls made so far and `k0` the constructor argument; both are   *)
(* only read by the properties.                                            *)
(***************************************************************************)
EXTENDS Naturals, Sequences, FiniteSets, TLC

VARIABLES ty, ret, calls, k0

vars == <<ty, ret, calls, k0>>

(* ------------------------------ bounds --------------------------------- *)

\* Longest history of builder calls explored.
MaxCalls == 3
\* Deepest nesting of Array(..) in a constructor argument.
MaxDepth == 3
\* Largest usize passed to size(); 0 is the smallest.
MaxSize == 255
\* Largest argument passed to default().
MaxDefault == 1

\* The &'static str names carried by Foreign and Custom.
Names == {"users", "jsonb"}
\* The arguments tried: the smallest and the largest.
SizeArgs == {0, MaxSize}
DefaultArgs == {0, MaxDefault}

(* ------------------------------ Option --------------------------------- *)

None == <<>>
Some(v) == <<v>>

(* ------------------------------ BaseType ------------------------------- *)

Text == [tag |-> "Text"]
Varchar == [tag |-> "Varchar"]
Primary == [tag |-> "Primary"]
Integer == [tag |-> "Integer"]
Float == [tag |-> "Float"]
Double == [tag |-> "Double"]
Boolean == [tag |-> "Boolean"]
Binary == [tag |-> "Binary"]
Foreign(name) == [tag |-> "Foreign", name |-> name]
Custom(name) == [tag |-> "Custom", name |-> name]
Array(elem) == [tag |-> "Array", elem |-> elem]

\* The variants that wrap no other BaseType.
Leaves ==
    {Text, Varchar, Primary, Integer, Float, Double, Boolean, Binary}
        \cup {Foreign(n) : n \in Names} \cup {Custom(n) : n \in Names}

\* Every BaseType value with at most d nested Array wrappers.
RECURSIVE BaseType(_)
BaseType(d) ==
    IF d = 0 THEN Leaves
    ELSE Leaves \cup {Array(b) : b \in BaseType(d - 1)}

\* Number of Array wrappers around the innermost variant.
RECURSIVE Depth(_)
Depth(b) == IF b.tag = "Array" THEN 1 + Depth(b.elem) ELSE 0

\* The innermost, non-Array variant.
RECURSIVE Innermost(_)
Innermost(b) == IF b.tag = "Array" THEN Innermost(b.elem) ELSE b

\* A plausible slip: cloning an Array clones its element and loses one wrapper.
RECURSIVE CloneFlat(_)
CloneFlat(b) ==
    IF b.tag = "Array" THEN CloneFlat(b.elem)
    ELSE b

\* #[derive(Clone)] on BaseType: variant by variant, the Box cloned deeply.
RECURSIVE Clone(_)
Clone(b) ==
    CASE b.tag = "Array" -> Array(Clone(b.elem))
      [] b.tag = "Foreign" -> Foreign(b.name)
      [] b.tag = "Custom" -> Custom(b.name)
      [] OTHER -> [tag |-> b.tag]

(* ------------------------------ Type<T> -------------------------------- *)

\* arg.into(): the T value built from the caller's argument.
Into(arg) == [from |-> arg]

\* A plausible slip: a column is created nullable.
NewNullable(inner) ==
    [nullable |-> TRUE, unique |-> FALSE, increments |-> FALSE,
     indexed |-> FALSE, default |-> None, size |-> None, inner |-> inner]

New(inner) ==
    [nullable |-> FALSE, unique |-> FALSE, increments |-> FALSE,
     indexed |-> FALSE, default |-> None, size |-> None, inner |-> inner]

\* A plausible hardening: size only on variable-length kinds.
ValidateSized(t) ==
    t.size = None \/ t.inner.tag \in {"Varchar", "Binary", "Array"}

Validate(t) == TRUE

GetInner(t) == Clone(t.inner)

\* A plausible slip: nullability can be switched on but not off again.
NullableSticky(t, arg) == [t EXCEPT !.nullable = t.nullable \/ arg]

Nullable(t, arg) == [t EXCEPT !.nullable = arg]

\* A plausible slip: a unique column is indexed as well.
UniqueIndexes(t, arg) == [t EXCEPT !.unique = arg, !.indexed = arg]

Unique(t, arg) == [t EXCEPT !.unique = arg]

\* A plausible slip: an auto-incrementing column becomes a primary key.
IncrementsPrimary(t, arg) ==
    [t EXCEPT !.increments = arg, !.inner = IF arg THEN Primary ELSE @]

Increments(t, arg) == [t EXCEPT !.increments = arg]

\* A plausible slip: copied from nullable, the field name left as it was.
IndexedAsNullable(t, arg) == [t EXCEPT !.nullable = arg]

Indexed(t, arg) == [t EXCEPT !.indexed = arg]

Default(t, arg) == [t EXCEPT !.default = Some(Into(arg))]

\* A plausible slip: a size of 0 read as "no size".
SizeZeroIsNone(t, arg) ==
    [t EXCEPT !.size = IF arg = 0 THEN None ELSE Some(arg)]

\* A plausible hardening: size refused on kinds that have no length.
SizeChecked(t, arg) ==
    IF t.inner.tag \in {"Integer", "Boolean"} THEN t
    ELSE [t EXCEPT !.size = Some(arg)]

Size(t, arg) == [t EXCEPT !.size = Some(arg)]

(* ------------------------------ the owner ------------------------------ *)

\* A builder call in the history: a flag call carries a bool, default and
\* size carry a number.
FlagCall(op, arg) == [op |-> op, flag |-> arg]
NumCall(op, arg) == [op |-> op, n |-> arg]

\* What the last operation returned to its caller.
Built == [op |-> "builder", val |-> None]

Init ==
    \E k \in BaseType(MaxDepth) :
        /\ ty = New(k)
        /\ k0 = k
        /\ calls = <<>>
        /\ ret = [op |-> "new", val |-> None]

CallNullable ==
    \E arg \in BOOLEAN :
        /\ Len(calls) < MaxCalls
        /\ ty' = Nullable(ty, arg)
        /\ calls' = Append(calls, FlagCall("nullable", arg))
        /\ ret' = Built
        /\ UNCHANGED k0

CallUnique ==
    \E arg \in BOOLEAN :
        /\ Len(calls) < MaxCalls
        /\ ty' = Unique(ty, arg)
        /\ calls' = Append(calls, FlagCall("unique", arg))
        /\ ret' = Built
        /\ UNCHANGED k0

CallIncrements ==
    \E arg \in BOOLEAN :
        /\ Len(calls) < MaxCalls
        /\ ty' = Increments(ty, arg)
        /\ calls' = Append(calls, FlagCall("increments", arg))
        /\ ret' = Built
        /\ UNCHANGED k0

CallIndexed ==
    \E arg \in BOOLEAN :
        /\ Len(calls) < MaxCalls
        /\ ty' = Indexed(ty, arg)
        /\ calls' = Append(calls, FlagCall("indexed", arg))
        /\ ret' = Built
        /\ UNCHANGED k0

CallDefault ==
    \E arg \in DefaultArgs :
        /\ Len(calls) < MaxCalls
        /\ ty' = Default(ty, arg)
        /\ calls' = Append(calls, NumCall("default", arg))
        /\ ret' = Built
        /\ UNCHANGED k0

CallSize ==
    \E arg \in SizeArgs :
        /\ Len(calls) < MaxCalls
        /\ ty' = Size(ty, arg)
        /\ calls' = Append(calls, NumCall("size", arg))
        /\ ret' = Built
        /\ UNCHANGED k0

\* validate(&self): borrows the value and reports.
CallValidate ==
    /\ ret' = [op |-> "validate", val |-> Some(Validate(ty))]
    /\ UNCHANGED <<ty, calls, k0>>

\* get_inner(&self): borrows the value and hands out a clone of its kind.
CallGetInner ==
    /\ ret' = [op |-> "get_inner", val |-> Some(GetInner(ty))]
    /\ UNCHANGED <<ty, calls, k0>>

Next ==
    \/ CallNullable
    \/ CallUnique
    \/ CallIncrements
    \/ CallIndexed
    \/ CallDefault
    \/ CallSize
    \/ CallValidate
    \/ CallGetInner

Spec == Init /\ [][Next]_vars

(* ------------------------------ history -------------------------------- *)

Flags == {"nullable", "unique", "increments", "indexed"}
Fields == Flags \cup {"default", "size"}

\* Index in `calls` of the last builder call that targeted field f, 0 if none.
LastIdx(f) ==
    LET hits == {i \in 1..Len(calls) : calls[i].op = f}
    IN  IF hits = {} THEN 0 ELSE CHOOSE i \in hits : \A j \in hits : j <= i

\* Whether some builder call so far targeted field f.
Touched(f) == LastIdx(f) # 0

\* The argument of the last builder call that targeted f (Touched(f) only).
Arg(c) == IF c.op \in {"default", "size"} THEN c.n ELSE c.flag
LastArg(f) == Arg(calls[LastIdx(f)])


Inconsistent(t) ==
    \/ t.size # None /\ t.inner.tag \in {"Integer", "Boolean"}
    \/ t.increments /\ t.inner.tag = "Text"
    \/ t.default # None

(* ------------------------------ properties ----------------------------- *)

\* C1: after any sequence of builder calls on a freshly constructed Type,
\* each metadata field equals the argument of the last call that targeted
\* it (default: that argument converted into T, wrapped in Some; size:
\* wrapped in Some), or the constructor default if no call targeted it.
\* The result is therefore a function of the last call per field alone.
C1_LastWriteWins ==
    /\ \A f \in Flags : ty[f] = IF Touched(f) THEN LastArg(f) ELSE FALSE
    /\ ty.default = IF Touched("default") THEN Some(Into(LastArg("default")))
                    ELSE None
    /\ ty.size = IF Touched("size") THEN Some(LastArg("size")) ELSE None

\* Two calls on different fields, and a field written twice with different
\* arguments: order and repetition both occur.
C1_Witness ==
    /\ Len(calls) = 3
    /\ calls[1] = NumCall("size", MaxSize)
    /\ calls[2] = FlagCall("nullable", TRUE)
    /\ calls[3] = NumCall("size", 0)
    /\ ty.size = Some(0)
    /\ ty.nullable

\* C2: for every kind k, Type::new(k) has nullable, unique, increments and
\* indexed false, default and size none, and inner = k.
C2_NewDefaults ==
    calls = <<>> =>
        /\ ty.nullable = FALSE
        /\ ty.unique = FALSE
        /\ ty.increments = FALSE
        /\ ty.indexed = FALSE
        /\ ty.default = None
        /\ ty.size = None
        /\ ty.inner = k0
        /\ DOMAIN ty = Fields \cup {"inner"}

C2_Witness ==
    /\ ret.op = "new"
    /\ calls = <<>>
    /\ k0 = Array(Foreign("users"))
    /\ ty.inner = Array(Foreign("users"))

\* C3: nullable(true) then nullable(false) on Type::new(k) gives a value
\* equal, field by field, to Type::new(k).
C3_NullableRoundTrip ==
    calls = <<FlagCall("nullable", TRUE),
              FlagCall("nullable", FALSE)>>
        => ty = [nullable |-> FALSE, unique |-> FALSE, increments |-> FALSE,
                 indexed |-> FALSE, default |-> None, size |-> None,
                 inner |-> k0]

C3_Witness ==
    /\ calls = <<FlagCall("nullable", TRUE),
                 FlagCall("nullable", FALSE)>>
    /\ k0 = Varchar
    /\ ~ty.nullable

\* C4: get_inner() on Type::new(Array(Array(b))) returns exactly
\* Array(Array(b)): same nesting depth, same innermost kind and name.
C4_ArrayRoundTrip ==
    (Depth(k0) >= 2 /\ ret.op = "get_inner") =>
        LET b == k0.elem.elem
        IN  /\ ret.val = Some(Array(Array(b)))
            /\ Depth(ret.val[1]) = 2 + Depth(b)
            /\ Innermost(ret.val[1]) = Innermost(b)

\* b is itself an Array, of a variant that carries a name.
C4_Witness ==
    /\ k0 = Array(Array(Array(Custom("jsonb"))))
    /\ calls = <<>>
    /\ ret.op = "get_inner"
    /\ ret.val = Some(Array(Array(Array(Custom("jsonb")))))

\* C5: the kind never changes after construction: after any sequence of
\* builder, validate and get_inner calls on Type::new(k), get_inner()
\* returns k.
C5_InnerImmutable ==
    /\ GetInner(ty) = k0
    /\ ret.op = "get_inner" => ret.val = Some(k0)

C5_Witness ==
    /\ Len(calls) = MaxCalls
    /\ calls[1] = FlagCall("increments", TRUE)
    /\ ret.op = "get_inner"
    /\ ret.val = Some(k0)
    /\ k0 = Integer

\* C6: validate() returns true for every value reachable by construction
\* and builder calls, also when the metadata is inconsistent with the kind,
\* and a validate step leaves the value unchanged.
C6_ValidateStub ==
    /\ [](Validate(ty) = TRUE)
    /\ [](ret.op = "validate" => ret.val = Some(TRUE))
    /\ [][ret'.op = "validate" => ty' = ty]_vars

\* validate() has answered for a Boolean column that carries a size.
C6_Witness ==
    /\ ret = [op |-> "validate", val |-> Some(TRUE)]
    /\ k0 = Boolean
    /\ ty.size = Some(0)
    /\ Inconsistent(ty)

\* C7: builder calls are total and not restricted by kind: for every kind,
\* every metadata state and every argument, size(n) yields size = Some(n)
\* and increments(flag) yields increments = flag, with every other field as
\* it was; the history shows the same for the calls actually made.
C7_BuildersTotal ==
    /\ \A n \in SizeArgs : Size(ty, n) = [ty EXCEPT !.size = Some(n)]
    /\ \A n \in SizeArgs : Size(ty, n).size = Some(n)
    /\ \A flag \in BOOLEAN : Increments(ty, flag).increments = flag
    /\ (Len(calls) > 0 /\ calls[Len(calls)].op = "size")
           => ty.size = Some(Arg(calls[Len(calls)]))
    /\ (Len(calls) > 0 /\ calls[Len(calls)].op = "increments")
           => ty.increments = Arg(calls[Len(calls)])
    /\ Len(calls) > 0 => ret.op \in {"builder", "validate", "get_inner"}

\* size(0) on a Boolean column, then increments(true) on it.
C7_Witness ==
    /\ k0 = Boolean
    /\ calls = <<NumCall("size", 0),
                 FlagCall("increments", TRUE)>>
    /\ ty.size = Some(0)
    /\ ty.increments

\* C9: a single builder call changes only the field it names; the other
\* five metadata fields and inner are as they were in the value it was
\* called on.
C9_Frame ==
    [][Len(calls') = Len(calls) + 1 =>
          \A f \in (Fields \cup {"inner"}) \ {calls'[Len(calls')].op} :
              ty'[f] = ty[f]]_vars

\* unique(true) made on a value whose other fields are all set.
C9_Witness ==
    /\ Len(calls) = 3
    /\ calls[1] = FlagCall("indexed", TRUE)
    /\ calls[2].op = "size"
    /\ calls[3] = FlagCall("unique", TRUE)
    /\ ty.unique /\ ty.indexed /\ ty.size # None

\* The four flags put back to false.
FlagsReset(t) ==
    Indexed(Increments(Unique(Nullable(t, FALSE), FALSE), FALSE), FALSE)

\* C10: default and size are set-only: once set, no builder call returns
\* the field to none, so the value never again equals a freshly constructed
\* Type, whereas builder calls can always return the four flags to their
\* constructor default.
C10_SetOnly ==
    /\ [][/\ ty.default # None => ty'.default # None
          /\ ty.size # None => ty'.size # None]_vars
    /\ []((Touched("default") \/ Touched("size")) =>
              /\ ty # New(k0)
              /\ \A f \in {"default", "size"} : Touched(f) => ty[f] # None)
    /\ [](\A f \in Flags : FlagsReset(ty)[f] = New(k0)[f])

\* size(1) first, then size(0) and a flag call: the size is still present.
C10_Witness ==
    /\ Len(calls) = 3
    /\ calls[1] = NumCall("size", MaxSize)
    /\ calls[2] = NumCall("size", 0)
    /\ calls[3].op = "nullable"
    /\ ty.size = Some(0)

====
